---------------------------- MODULE Spec2Model ----------------------------
(***************************************************************************)
(* Model of crates/typst-pdf/src/tags/text.rs: the text attribute log      *)
(* (TextAttrs), its single-slot memo, the resolution of the log into a     *)
(* ResolvedTextAttrs and the construction of the nested tag groups.        *)
(*                                                                         *)
(* Encodings.  Option<T> and Smart<T> are sets with at most one element:   *)
(* None / Auto is {}, Some(v) / Custom(v) is {v}, so Option<Option<T>>     *)
(* keeps its three values {}, {{}} and {{v}}.  Abs and Em are integers     *)
(* (points, and multiples of the font size); a Length is [abs, em].        *)
(***************************************************************************)
EXTENDS Integers, Sequences, FiniteSets, TLC

VARIABLES
    items,          \* TextAttrs.items: the log of (Location, TextAttr)
    last_resolved,  \* TextAttrs.last_resolved: Option<(TextParams, attrs)>
    call,           \* the last call made and its arguments
    ret,            \* the value the last call returned
    runs,           \* how often resolve_attrs ran since the memo was last
                    \* cleared, modulo 2
    accum,          \* the node accumulator handed to resolve_nodes
    open_scopes     \* the walk driving the log: per location, the pushes
                    \* it made minus the pops it made for them

vars == <<items, last_resolved, call, ret, runs, accum, open_scopes>>

---------------------------------------------------------------------------
(* Bounds and input sets                                                   *)

\* Longest log the model builds.
MaxLen == 3

\* Longest log the tag-building specification starts from.
MaxNodeLen == 3

\* Longest log the single-mutation specification starts from.
MaxAxesLen == 2

\* Locations of the formatting scopes.
Locs == {"A", "B"}

---------------------------------------------------------------------------
(* Option / Smart                                                          *)

None == {}
Some(v) == {v}
is_some(o) == o # {}
unwrap(o) == CHOOSE v \in o : TRUE

Auto == {}
Custom(v) == {v}

\* Option::get_or_insert / get_or_insert_with: only an empty slot is filled.
get_or_insert(slot, v) == IF slot = None THEN Some(v) ELSE slot

\* Option::flatten
flatten(o) == IF o = None THEN None ELSE unwrap(o)

---------------------------------------------------------------------------
(* External collaborators                                                  *)

\* Font::index: the identity of the font the memo key compares.
FontIndex(font) == CASE font = "F1" -> 0 [] font = "F2" -> 1

\* ScriptKind::read_metrics(font.metrics()): vertical offset and height of
\* the font's sub/superscript glyphs, in em.
read_metrics(kind, font) ==
    CASE kind = "Sub" /\ font = "F1" -> [vertical_offset |-> 1, height |-> 6]
      [] kind = "Super" /\ font = "F1" -> [vertical_offset |-> -3, height |-> 6]
      [] kind = "Sub" /\ font = "F2" -> [vertical_offset |-> 2, height |-> 7]
      [] kind = "Super" /\ font = "F2" -> [vertical_offset |-> -4, height |-> 7]

\* Em::at and Length::at: the absolute length at a font size.
EmAt(em, size) == em * size
LengthAt(len, size) == len.abs + EmAt(len.em, size)

\* AbsExt::to_f32: points as f32; exact on the small integers used here.
to_f32(abs) == abs

\* convert::paint_to_color: a solid paint has a colour, a gradient has none.
paint_to_color(paint) ==
    CASE paint = "solid" -> Some("rgb")
      [] paint = "gradient" -> None

\* paint.and_then(convert::paint_to_color), on an Option or Smart paint.
and_then_paint_to_color(paint) ==
    IF paint = None THEN None ELSE paint_to_color(unwrap(paint))

---------------------------------------------------------------------------
(* Values                                                                  *)

Strong == [type |-> "Strong"]
Emph == [type |-> "Emph"]
Script(val) == [type |-> "Script", val |-> val]
Highlight(color) == [type |-> "Highlight", color |-> color]
Deco(deco) == [type |-> "Deco", deco |-> deco]

\* TextAttr::as_deco
as_deco(attr) == IF attr.type = "Deco" THEN Some(attr.deco) ELSE None

\* TextDecoKind::to_krilla
to_krilla(kind) ==
    CASE kind = "Underline" -> "Underline"
      [] kind = "Overline" -> "Overline"
      [] kind = "Strike" -> "LineThrough"

\* TextDecoStroke::default and TextDecoStroke::from(Smart<Stroke>)
TextDecoStrokeDefault == [color |-> None, thickness |-> None]

TextDecoStrokeFrom(stroke) ==
    IF stroke = Auto THEN TextDecoStrokeDefault
    ELSE [color |-> and_then_paint_to_color(unwrap(stroke).paint),
          thickness |-> unwrap(stroke).thickness]

\* TextParams with the font as the whole key: runs of one font and two
\* sizes compare equal.
TextParamsFontOnly(text) == [font_index |-> FontIndex(text.font), size |-> 0]

\* TextParams::new
TextParams(text) == [font_index |-> FontIndex(text.font), size |-> text.size]

\* ResolvedTextAttrs::EMPTY
EMPTY == [strong |-> None, emph |-> None, script |-> None,
          background |-> None, deco |-> None]

\* all_resolved with || for &&: one decided slot ends the scan.
all_resolved_any(attrs) ==
    \/ is_some(attrs.strong)
    \/ is_some(attrs.emph)
    \/ is_some(attrs.script)
    \/ is_some(attrs.background)
    \/ is_some(attrs.deco)

\* all_resolved without the slot added last: the scan ends with the
\* decoration undecided.
all_resolved_but_deco(attrs) ==
    /\ is_some(attrs.strong)
    /\ is_some(attrs.emph)
    /\ is_some(attrs.script)
    /\ is_some(attrs.background)

\* ResolvedTextAttrs::all_resolved
all_resolved(attrs) ==
    /\ is_some(attrs.strong)
    /\ is_some(attrs.emph)
    /\ is_some(attrs.script)
    /\ is_some(attrs.background)
    /\ is_some(attrs.deco)

---------------------------------------------------------------------------
(* Inputs                                                                  *)

\* The text runs handed to resolve: two of them differ in the size only, two
\* in the font only.
Texts ==
    { [font |-> "F1", size |-> 10], [font |-> "F1", size |-> 20],
      [font |-> "F2", size |-> 10] }

\* Arguments of push_script: an explicit baseline shift, whose value depends
\* on the size of the run, and an automatic line height, whose value
\* depends on the font of the run.
ScriptArgs ==
    { [kind |-> "Super", baseline_shift |-> Custom([abs |-> 1, em |-> 2]),
       lineheight |-> Auto] }

\* Arguments of push_highlight: Option<&Paint>.  The walk of the full
\* state machine highlights with the solid paint only.
Paints == {Some("solid"), Some("gradient")}
WalkPaints == {Some("solid")}

\* Arguments of push_deco: a kind and a Smart<Stroke>, a Stroke being a
\* Smart<Paint> and a Smart<Length>.
DecoArgs ==
    { [kind |-> "Underline", stroke |-> Auto],
      [kind |-> "Overline",
       stroke |-> Custom([paint |-> Custom("solid"),
                          thickness |-> Custom([abs |-> 0, em |-> 1])])] }

\* Arguments of the generic push: the callers use it for Strong and Emph.
PushAttrs == {Strong, Emph}

\* Every attribute the push operations above can store.
Attrs ==
    PushAttrs
    \cup {Script(s) : s \in ScriptArgs}
    \cup {Highlight(and_then_paint_to_color(p)) : p \in Paints}
    \cup {Deco([kind |-> d.kind, stroke |-> TextDecoStrokeFrom(d.stroke)]) :
            d \in DecoArgs}

---------------------------------------------------------------------------
(* The resolution algorithm                                                *)

\* The Script arm without the inversion of the explicit baseline shift.
ResolvedScriptNotInverted(script, font, size) ==
    LET script_metrics == read_metrics(script.kind, font)
        baseline_shift ==
            IF script.baseline_shift = Auto
            THEN EmAt(script_metrics.vertical_offset, size)
            ELSE LengthAt(unwrap(script.baseline_shift), size)
        lineheight ==
            IF script.lineheight = Auto
            THEN EmAt(script_metrics.height, size)
            ELSE LengthAt(unwrap(script.lineheight), size)
    IN  [baseline_shift |-> to_f32(baseline_shift),
         lineheight |-> [Custom |-> to_f32(lineheight)]]

\* resolve_attrs, the Script arm: the value the script slot is decided to.
ResolvedScript(script, font, size) ==
    LET script_metrics == read_metrics(script.kind, font)
        baseline_shift ==
            IF script.baseline_shift = Auto
            THEN EmAt(script_metrics.vertical_offset, size)
            ELSE 0 - LengthAt(unwrap(script.baseline_shift), size)
        lineheight ==
            IF script.lineheight = Auto
            THEN EmAt(script_metrics.height, size)
            ELSE LengthAt(unwrap(script.lineheight), size)
    IN  [baseline_shift |-> to_f32(baseline_shift),
         lineheight |-> [Custom |-> to_f32(lineheight)]]

\* resolve_attrs, the Deco arm: the value the deco slot is decided to.
ResolvedTextDeco(deco, size) ==
    LET thickness ==
            IF deco.stroke.thickness = None THEN None
            ELSE Some(to_f32(LengthAt(unwrap(deco.stroke.thickness), size)))
    IN  [kind |-> deco.kind, color |-> deco.stroke.color,
         thickness |-> thickness]

\* resolve_attrs, the body of the loop: one entry decides its slot if the
\* slot is still undecided.
ResolveStep(attrs, attr, font, size) ==
    CASE attr.type = "Strong" ->
            [attrs EXCEPT !.strong = get_or_insert(@, TRUE)]
      [] attr.type = "Emph" ->
            [attrs EXCEPT !.emph = get_or_insert(@, TRUE)]
      [] attr.type = "Script" ->
            [attrs EXCEPT !.script =
                get_or_insert(@, ResolvedScript(attr.val, font, size))]
      [] attr.type = "Highlight" ->
            [attrs EXCEPT !.background = get_or_insert(@, attr.color)]
      [] attr.type = "Deco" ->
            [attrs EXCEPT !.deco =
                get_or_insert(@, ResolvedTextDeco(attr.deco, size))]

\* resolve_attrs, the loop: entries i, i-1, ..., 1 in this order, stopping
\* as soon as every slot is decided.
RECURSIVE ResolveLoop(_, _, _, _, _)
ResolveLoop(its, i, attrs, font, size) ==
    IF i = 0 THEN attrs
    ELSE LET next == ResolveStep(attrs, its[i].attr, font, size)
         IN  IF all_resolved(next) THEN next
             ELSE ResolveLoop(its, i - 1, next, font, size)

\* resolve_attrs without the rev(): the entry pushed first decides.
resolve_attrs_forward(its, font, size) ==
    ResolveLoop([j \in 1..Len(its) |-> its[Len(its) + 1 - j]], Len(its),
                EMPTY, font, size)

resolve_attrs(its, font, size) == ResolveLoop(its, Len(its), EMPTY, font, size)

---------------------------------------------------------------------------
(* The log                                                                 *)

\* An entry of the log is (Location, TextAttr).  The field seq is a history
\* value the program does not store: the rank of the entry's push among the
\* pushes of the entries still in the log (1 = pushed first).
Entry(loc, attr, seq) == [loc |-> loc, attr |-> attr, seq |-> seq]

\* Renumbers the history field after a removal; loc and attr are untouched.
Rerank(its) ==
    [j \in 1..Len(its) |->
        [its[j] EXCEPT !.seq =
            Cardinality({k \in 1..Len(its) : its[k].seq <= its[j].seq})]]

\* Vec::push
VecPush(its, e) == Append(its, e)

\* truncate(i - 1) for remove(i): the entry and all entries after it go.
VecTruncate(its, i) == SubSeq(its, 1, i - 1)

\* Vec::remove(i)
VecRemove(its, i) == SubSeq(its, 1, i - 1) \o SubSeq(its, i + 1, Len(its))

\* position for rposition: the first index whose location is loc.
position(its, loc) ==
    LET m == {i \in 1..Len(its) : its[i].loc = loc}
    IN  IF m = {} THEN 0 ELSE CHOOSE i \in m : \A j \in m : i <= j

\* Iterator::rposition: the last index whose location is loc, 0 for none.
rposition(its, loc) ==
    LET m == {i \in 1..Len(its) : its[i].loc = loc}
    IN  IF m = {} THEN 0 ELSE CHOOSE i \in m : \A j \in m : j <= i

\* The condition with == for !=: a decoration of the pushed kind is taken
\* for the conflict.
DecoConflictSameKind(its, kind) ==
    \E i \in 1..Len(its) :
        /\ is_some(as_deco(its[i].attr))
        /\ unwrap(as_deco(its[i].attr)).kind = kind

\* The check of the top of the stack only.
DecoConflictTop(its, kind) ==
    /\ Len(its) > 0
    /\ is_some(as_deco(its[Len(its)].attr))
    /\ unwrap(as_deco(its[Len(its)].attr)).kind # kind

\* push_deco, the condition of the bail!: some decoration in the log has
\* another kind than the pushed one.
DecoConflict(its, kind) ==
    \E i \in 1..Len(its) :
        /\ is_some(as_deco(its[i].attr))
        /\ unwrap(as_deco(its[i].attr)).kind # kind

---------------------------------------------------------------------------
(* Operations of TextAttrs                                                 *)

\* No scope is open.
NoScopes == [loc \in Locs |-> 0]

\* TextAttrs::new
Init ==
    /\ items = <<>>
    /\ last_resolved = None
    /\ call = [op |-> "new"]
    /\ ret = "unit"
    /\ runs = 0
    /\ accum = <<>>
    /\ open_scopes = NoScopes

\* push without the invalidation of the memo.
PushEffectKeepsMemo(loc, attr) ==
    /\ UNCHANGED last_resolved
    /\ items' = VecPush(items, Entry(loc, attr, Len(items) + 1))

\* TextAttrs::push, the effect on the stack.
PushEffect(loc, attr) ==
    /\ last_resolved' = None
    /\ items' = VecPush(items, Entry(loc, attr, Len(items) + 1))

\* TextAttrs::push(elem, attr), elem.location() being Some(loc).
push(loc, attr) ==
    /\ Len(items) < MaxLen
    /\ PushEffect(loc, attr)
    /\ call' = [op |-> "push", loc |-> loc, attr |-> attr]
    /\ ret' = "unit"
    /\ runs' = 0
    /\ UNCHANGED accum

\* TextAttrs::push_script
push_script(loc, arg) ==
    /\ Len(items) < MaxLen
    /\ PushEffect(loc, Script(arg))
    /\ call' = [op |-> "push_script", loc |-> loc, arg |-> arg]
    /\ ret' = "unit"
    /\ runs' = 0
    /\ UNCHANGED accum

\* TextAttrs::push_highlight
push_highlight(loc, paint) ==
    /\ Len(items) < MaxLen
    /\ PushEffect(loc, Highlight(and_then_paint_to_color(paint)))
    /\ call' = [op |-> "push_highlight", loc |-> loc, paint |-> paint]
    /\ ret' = "unit"
    /\ runs' = 0
    /\ UNCHANGED accum

\* push_deco with the memo invalidated before the check of the kinds.
push_deco_clears_first(is_pdf_ua, loc, kind, stroke) ==
    LET deco == [kind |-> kind, stroke |-> TextDecoStrokeFrom(stroke)]
    IN  /\ Len(items) < MaxLen
        /\ call' = [op |-> "push_deco", is_pdf_ua |-> is_pdf_ua, loc |-> loc,
                    kind |-> kind, stroke |-> stroke]
        /\ UNCHANGED accum
        /\ last_resolved' = None
        /\ runs' = 0
        /\ IF is_pdf_ua /\ DecoConflict(items, deco.kind)
           THEN /\ ret' = "Err"
                /\ UNCHANGED items
           ELSE /\ items' = VecPush(items, Entry(loc, Deco(deco), Len(items) + 1))
                /\ ret' = "Ok"

\* TextAttrs::push_deco; is_pdf_ua is options.is_pdf_ua().
push_deco(is_pdf_ua, loc, kind, stroke) ==
    LET deco == [kind |-> kind, stroke |-> TextDecoStrokeFrom(stroke)]
    IN  /\ Len(items) < MaxLen
        /\ call' = [op |-> "push_deco", is_pdf_ua |-> is_pdf_ua, loc |-> loc,
                    kind |-> kind, stroke |-> stroke]
        /\ UNCHANGED accum
        /\ IF is_pdf_ua /\ DecoConflict(items, deco.kind)
           THEN /\ ret' = "Err"
                /\ UNCHANGED <<items, last_resolved, runs>>
           ELSE /\ PushEffect(loc, Deco(deco))
                /\ ret' = "Ok"
                /\ runs' = 0

\* pop with the invalidation of the memo moved into the branch that
\* removes an entry.
pop_keeps_memo_on_miss(loc) ==
    LET i == rposition(items, loc)
    IN  /\ IF i # 0
           THEN /\ items' = Rerank(VecRemove(items, i))
                /\ last_resolved' = None
                /\ runs' = 0
                /\ ret' = TRUE
           ELSE /\ UNCHANGED <<items, last_resolved, runs>>
                /\ ret' = FALSE
        /\ call' = [op |-> "pop", loc |-> loc]
        /\ UNCHANGED accum

\* TextAttrs::pop
pop(loc) ==
    LET i == rposition(items, loc)
    IN  /\ last_resolved' = None
        /\ IF i # 0
           THEN /\ items' = Rerank(VecRemove(items, i))
                /\ ret' = TRUE
           ELSE /\ items' = items
                /\ ret' = FALSE
        /\ call' = [op |-> "pop", loc |-> loc]
        /\ runs' = 0
        /\ UNCHANGED accum

\* resolve without the store into the memo.
resolve_no_store(text) ==
    /\ ret' = resolve_attrs(items, text.font, text.size)
    /\ runs' = 1 - runs
    /\ call' = [op |-> "resolve", text |-> text]
    /\ UNCHANGED <<items, last_resolved, accum>>

\* TextAttrs::resolve
resolve(text) ==
    LET params == TextParams(text)
    IN  /\ IF is_some(last_resolved) /\ unwrap(last_resolved).params = params
           THEN /\ ret' = unwrap(last_resolved).attrs
                /\ UNCHANGED <<last_resolved, runs>>
           ELSE LET attrs == resolve_attrs(items, text.font, text.size)
                IN  /\ last_resolved' = Some([params |-> params, attrs |-> attrs])
                    /\ ret' = attrs
                    /\ runs' = 1 - runs
        /\ call' = [op |-> "resolve", text |-> text]
        /\ UNCHANGED <<items, accum>>

\* Any call in any order; the walk keeps no account of its scopes.
Next ==
    \/ \E loc \in Locs, attr \in PushAttrs :
          push(loc, attr) /\ UNCHANGED open_scopes
    \/ \E loc \in Locs, arg \in ScriptArgs :
          push_script(loc, arg) /\ UNCHANGED open_scopes
    \/ \E loc \in Locs, paint \in WalkPaints :
          push_highlight(loc, paint) /\ UNCHANGED open_scopes
    \/ \E is_pdf_ua \in BOOLEAN, loc \in Locs, d \in DecoArgs :
          push_deco(is_pdf_ua, loc, d.kind, d.stroke) /\ UNCHANGED open_scopes
    \/ \E loc \in Locs : pop(loc) /\ UNCHANGED open_scopes
    \/ \E text \in Texts : resolve(text) /\ UNCHANGED open_scopes

Spec == Init /\ [][Next]_vars

---------------------------------------------------------------------------
(* The tag tree builder                                                    *)

\* Node::Leaf and Node::Group(TagGroup::with_children(tag, children))
Leaf(id) == [node |-> "Leaf", id |-> id]
Group(tag, children) == [node |-> "Group", tag |-> tag, children |-> children]

\* ids.into_iter().map(Node::Leaf).collect()
Leaves(ids) == [j \in 1..Len(ids) |-> Leaf(ids[j])]

\* Tag::Strong, Tag::Em, and Tag::Span with the attributes resolve_nodes
\* gives it.
TagStrong == [kind |-> "Strong"]
TagEm == [kind |-> "Em"]

SpanTag(self) ==
    [kind |-> "Span",
     line_height |->
        IF self.script = None THEN None
        ELSE Some(unwrap(self.script).lineheight),
     baseline_shift |->
        IF self.script = None THEN None
        ELSE Some(unwrap(self.script).baseline_shift),
     background_color |-> flatten(self.background),
     text_decoration_type |->
        IF self.deco = None THEN None
        ELSE Some(to_krilla(unwrap(self.deco).kind)),
     text_decoration_color |->
        IF self.deco = None THEN None ELSE unwrap(self.deco).color,
     text_decoration_thickness |->
        IF self.deco = None THEN None ELSE unwrap(self.deco).thickness]

\* Prev::Children, Prev::Group and Prev::into_nodes
PrevChildren(ids) == [variant |-> "Children", ids |-> ids]
PrevGroup(group) == [variant |-> "Group", group |-> group]

into_nodes(prev) ==
    IF prev.variant = "Children" THEN Leaves(prev.ids) ELSE <<prev.group>>

\* resolve_nodes with the Em group built before the Strong group.
resolve_nodes_em_first(self, acc, children) ==
    LET prev0 == PrevChildren(children)
        prev1 ==
            IF is_some(self.script) \/ is_some(self.background)
                \/ is_some(self.deco)
            THEN PrevGroup(Group(SpanTag(self), into_nodes(prev0)))
            ELSE prev0
        prev2 ==
            IF self.emph = Some(TRUE)
            THEN PrevGroup(Group(TagEm, into_nodes(prev1)))
            ELSE prev1
        prev3 ==
            IF self.strong = Some(TRUE)
            THEN PrevGroup(Group(TagStrong, into_nodes(prev2)))
            ELSE prev2
    IN  IF prev3.variant = "Group"
        THEN Append(acc, prev3.group)
        ELSE acc \o Leaves(prev3.ids)

\* resolve_nodes with the span group built unconditionally.
resolve_nodes_always_span(self, acc, children) ==
    LET prev1 == PrevGroup(Group(SpanTag(self), Leaves(children)))
        prev2 ==
            IF self.strong = Some(TRUE)
            THEN PrevGroup(Group(TagStrong, into_nodes(prev1)))
            ELSE prev1
        prev3 ==
            IF self.emph = Some(TRUE)
            THEN PrevGroup(Group(TagEm, into_nodes(prev2)))
            ELSE prev2
    IN  Append(acc, prev3.group)

\* ResolvedTextAttrs::resolve_nodes: the accumulator after the call.
resolve_nodes(self, acc, children) ==
    LET prev0 == PrevChildren(children)
        prev1 ==
            IF is_some(self.script) \/ is_some(self.background)
                \/ is_some(self.deco)
            THEN PrevGroup(Group(SpanTag(self), into_nodes(prev0)))
            ELSE prev0
        prev2 ==
            IF self.strong = Some(TRUE)
            THEN PrevGroup(Group(TagStrong, into_nodes(prev1)))
            ELSE prev1
        prev3 ==
            IF self.emph = Some(TRUE)
            THEN PrevGroup(Group(TagEm, into_nodes(prev2)))
            ELSE prev2
    IN  IF prev3.variant = "Group"
        THEN Append(acc, prev3.group)
        ELSE acc \o Leaves(prev3.ids)

\* The accumulators a tag tree is built into and the leaves of a text run.
AccumInit == {<<>>, <<Leaf("P")>>}
Children == {<<"X">>, <<"X", "Y">>}

\* The logs of at most n entries that pushes at the locations locs produce.
RECURSIVE Logs(_, _)
Logs(n, locs) ==
    IF n = 0 THEN {<<>>}
    ELSE LET shorter == Logs(n - 1, locs)
         IN  shorter \cup
             {VecPush(its, Entry(loc, attr, Len(its) + 1)) :
                its \in {l \in shorter : Len(l) = n - 1},
                loc \in locs, attr \in Attrs}

InitNodes ==
    /\ items \in Logs(MaxNodeLen, {"A"})
    /\ last_resolved = None
    /\ call = [op |-> "new"]
    /\ ret = "unit"
    /\ runs = 0
    /\ accum \in AccumInit
    /\ open_scopes = NoScopes

\* attrs.resolve_nodes(&mut accum, children), attrs being the value the
\* preceding resolve returned.
ResolveNodes(children) ==
    /\ call.op = "resolve"
    /\ accum' = resolve_nodes(ret, accum, children)
    /\ call' = [op |-> "resolve_nodes", self |-> ret, children |-> children]
    /\ ret' = "unit"
    /\ UNCHANGED <<items, last_resolved, runs, open_scopes>>

\* The tag building starts from a log of at most MaxNodeLen entries, pushed
\* at location A.  The walk (pop, resolve) of a text run, then the building of its nodes.
NextNodes ==
    \/ \E loc \in Locs :
          call.op # "resolve_nodes" /\ pop(loc) /\ UNCHANGED open_scopes
    \/ \E text \in Texts :
          call.op # "resolve_nodes" /\ resolve(text) /\ UNCHANGED open_scopes
    \/ \E children \in Children : ResolveNodes(children)

SpecNodes == InitNodes /\ [][NextNodes]_vars

---------------------------------------------------------------------------
(* One mutation of a log                                                   *)

InitAxes ==
    /\ items \in Logs(MaxAxesLen, Locs)
    /\ last_resolved = None
    /\ call = [op |-> "new"]
    /\ ret = "unit"
    /\ runs = 0
    /\ accum = <<>>
    /\ open_scopes = NoScopes

\* One push or one pop on a log of at most MaxAxesLen entries.
NextAxes ==
    \/ \E loc \in Locs, attr \in PushAttrs :
          call.op = "new" /\ push(loc, attr) /\ UNCHANGED open_scopes
    \/ \E loc \in Locs, arg \in ScriptArgs :
          call.op = "new" /\ push_script(loc, arg) /\ UNCHANGED open_scopes
    \/ \E loc \in Locs, paint \in Paints :
          call.op = "new" /\ push_highlight(loc, paint)
            /\ UNCHANGED open_scopes
    \/ \E is_pdf_ua \in BOOLEAN, loc \in Locs, d \in DecoArgs :
          call.op = "new" /\ push_deco(is_pdf_ua, loc, d.kind, d.stroke)
            /\ UNCHANGED open_scopes
    \/ \E loc \in Locs : call.op = "new" /\ pop(loc) /\ UNCHANGED open_scopes

SpecAxes == InitAxes /\ [][NextAxes]_vars

---------------------------------------------------------------------------
(* Resolving one log for runs of several fonts and sizes                   *)

\* Longest log the scaling specification starts from.
MaxScaleLen == 2

\* The logs of at most n entries that pushes of the attributes attrs at the
\* locations locs produce.
RECURSIVE LogsOver(_, _, _)
LogsOver(n, locs, attrs) ==
    IF n = 0 THEN {<<>>}
    ELSE LET shorter == LogsOver(n - 1, locs, attrs)
         IN  shorter \cup
             {VecPush(its, Entry(loc, attr, Len(its) + 1)) :
                its \in {l \in shorter : Len(l) = n - 1},
                loc \in locs, attr \in attrs}

\* Arguments of push_script: both kinds, each of the two lengths explicit
\* or automatic.
ScaleScriptArgs ==
    { [kind |-> k, baseline_shift |-> b, lineheight |-> l] :
        k \in {"Sub", "Super"},
        b \in {Auto, Custom([abs |-> 1, em |-> 2])},
        l \in {Auto, Custom([abs |-> 2, em |-> 1])} }

\* Arguments of push_deco: no thickness, a thickness in em only, and one
\* with an absolute and a font-relative part.
ScaleDecoArgs ==
    DecoArgs \cup
    { [kind |-> "Strike",
       stroke |-> Custom([paint |-> Auto,
                          thickness |-> Custom([abs |-> 3, em |-> 2])])] }

ScaleAttrs ==
    {Script(s) : s \in ScaleScriptArgs}
    \cup {Deco([kind |-> d.kind, stroke |-> TextDecoStrokeFrom(d.stroke)]) :
            d \in ScaleDecoArgs}

\* Runs of two fonts at two sizes each.
ScaleTexts == {[font |-> f, size |-> s] : f \in {"F1", "F2"}, s \in {10, 20}}

InitScale ==
    /\ items \in LogsOver(MaxScaleLen, {"A"}, ScaleAttrs)
    /\ last_resolved = None
    /\ call = [op |-> "new"]
    /\ ret = "unit"
    /\ runs = 0
    /\ accum = <<>>
    /\ open_scopes = NoScopes

\* The text runs of a paragraph are resolved one after the other, the log
\* staying as it is.
NextScale == \E text \in ScaleTexts : resolve(text) /\ UNCHANGED open_scopes

SpecScale == InitScale /\ [][NextScale]_vars

---------------------------------------------------------------------------
(* The scan of logs longer than the number of slots                        *)

\* Longest log the scan specification starts from: one entry more than
\* there are slots, so that the scan can end with an entry left unread.
MaxScanLen == 6

\* One attribute of each type, and a second highlight of another colour.
ScanAttrs ==
    PushAttrs
    \cup {Script(s) : s \in ScriptArgs}
    \cup {Highlight(and_then_paint_to_color(p)) : p \in Paints}
    \cup {Deco([kind |-> "Underline", stroke |-> TextDecoStrokeFrom(Auto)])}

\* The runs the logs are scanned for.
ScanTexts == {[font |-> "F1", size |-> 10]}

InitScan ==
    /\ items \in LogsOver(MaxScanLen, {"A"}, ScanAttrs)
    /\ last_resolved = None
    /\ call = [op |-> "new"]
    /\ ret = "unit"
    /\ runs = 0
    /\ accum = <<>>
    /\ open_scopes = NoScopes

\* resolve_attrs(&self.items, &text.font, text.size), called on its own.
ResolveAttrs(text) ==
    /\ ret' = resolve_attrs(items, text.font, text.size)
    /\ call' = [op |-> "resolve_attrs", text |-> text]
    /\ UNCHANGED <<items, last_resolved, runs, accum, open_scopes>>

NextScan == \E text \in ScanTexts : ResolveAttrs(text)

SpecScan == InitScan /\ [][NextScan]_vars

---------------------------------------------------------------------------
(* The walk of a document exported as PDF/UA                               *)

\* Any call in any order, options.is_pdf_ua() being true at every
\* push_deco; the decorations are of all three kinds.
NextStrict ==
    \/ \E loc \in Locs, attr \in PushAttrs :
          push(loc, attr) /\ UNCHANGED open_scopes
    \/ \E loc \in Locs, arg \in ScriptArgs :
          push_script(loc, arg) /\ UNCHANGED open_scopes
    \/ \E loc \in Locs, paint \in WalkPaints :
          push_highlight(loc, paint) /\ UNCHANGED open_scopes
    \/ \E loc \in Locs, d \in ScaleDecoArgs :
          push_deco(TRUE, loc, d.kind, d.stroke) /\ UNCHANGED open_scopes
    \/ \E loc \in Locs : pop(loc) /\ UNCHANGED open_scopes
    \/ \E text \in Texts : resolve(text) /\ UNCHANGED open_scopes

SpecStrict == Init /\ [][NextStrict]_vars

---------------------------------------------------------------------------
(* The walk that leaves every scope it entered                             *)

\* The walk enters a scope at loc: its push succeeded.
Enter(loc) == open_scopes' = [open_scopes EXCEPT ![loc] = @ + 1]

\* The walk leaves a scope at loc it entered and has not left yet.
Leave(loc) ==
    /\ open_scopes[loc] > 0
    /\ open_scopes' = [open_scopes EXCEPT ![loc] = @ - 1]

\* Pushes on entering a scope, one pop of its location on leaving it, in
\* any order of the scopes; a push_deco that failed entered no scope.
NextPaired ==
    \/ \E loc \in Locs, attr \in PushAttrs : push(loc, attr) /\ Enter(loc)
    \/ \E loc \in Locs, arg \in ScriptArgs :
          push_script(loc, arg) /\ Enter(loc)
    \/ \E loc \in Locs, paint \in WalkPaints :
          push_highlight(loc, paint) /\ Enter(loc)
    \/ \E is_pdf_ua \in BOOLEAN, loc \in Locs, d \in DecoArgs :
          /\ push_deco(is_pdf_ua, loc, d.kind, d.stroke)
          /\ IF ret' = "Ok" THEN Enter(loc) ELSE UNCHANGED open_scopes
    \/ \E loc \in Locs : pop(loc) /\ Leave(loc)
    \/ \E text \in Texts : resolve(text) /\ UNCHANGED open_scopes

SpecPaired == Init /\ [][NextPaired]_vars

---------------------------------------------------------------------------
(* Properties                                                              *)

AttrTypes == {"Strong", "Emph", "Script", "Highlight", "Deco"}

\* The slot of a resolved style that entries of a type decide.
Slot(attrs, type) ==
    CASE type = "Strong" -> attrs.strong
      [] type = "Emph" -> attrs.emph
      [] type = "Script" -> attrs.script
      [] type = "Highlight" -> attrs.background
      [] type = "Deco" -> attrs.deco

\* The value an entry decides its slot to, for a text run.
DecidedBy(attr, text) ==
    CASE attr.type = "Strong" -> TRUE
      [] attr.type = "Emph" -> TRUE
      [] attr.type = "Script" -> ResolvedScript(attr.val, text.font, text.size)
      [] attr.type = "Highlight" -> attr.color
      [] attr.type = "Deco" -> ResolvedTextDeco(attr.deco, text.size)

\* The indices of the entries of a location, and the largest of a set.
Matching(its, loc) == {i \in 1..Len(its) : its[i].loc = loc}
Largest(m) == CHOOSE i \in m : \A j \in m : j <= i

\* C1: whatever pushes, pops and resolves came before, the value a resolve
\* call returns is the one resolve_attrs yields for the log as it is now
\* and the font and size of the run: it is never a value of an earlier log.
C1_ResolveNeverStale ==
    call.op = "resolve" =>
        ret = resolve_attrs(items, call.text.font, call.text.size)

\* A resolve on a log of two entries with a script and a decoration
\* decided.
C1_Witness ==
    /\ call.op = "resolve"
    /\ Len(items) = 2
    /\ is_some(ret.script)
    /\ is_some(ret.deco)

\* C2: a resolve that directly follows a resolve with equal run parameters
\* returns the same value and does not run resolve_attrs (the count of its
\* runs stays); no resolve changes the log.
C2_ResolveTwiceSame ==
    [][ /\ call'.op = "resolve" => items' = items
        /\ ( /\ call.op = "resolve"
             /\ call'.op = "resolve"
             /\ TextParams(call'.text) = TextParams(call.text) )
           => (ret' = ret /\ runs' = runs) ]_vars

\* A resolve has returned a non-empty style and the memo holds it for the
\* parameters of the run: the state a second, equal call starts from and
\* ends in.
C2_Witness ==
    /\ call.op = "resolve"
    /\ ret # EMPTY
    /\ last_resolved = Some([params |-> TextParams(call.text), attrs |-> ret])

\* C3: push_deco of kind k fails exactly when PDF/UA is enforced and some
\* decoration entry of the log, at any position, has a kind other than k;
\* otherwise it succeeds and the log grows by the decoration entry, at its
\* end.
C3_PushDecoFailsIff ==
    [][ call'.op = "push_deco" =>
        LET conflict ==
                /\ call'.is_pdf_ua
                /\ \E i \in 1..Len(items) :
                      /\ items[i].attr.type = "Deco"
                      /\ items[i].attr.deco.kind # call'.kind
        IN  /\ (ret' = "Err") <=> conflict
            /\ ~conflict =>
                /\ ret' = "Ok"
                /\ Len(items') = Len(items) + 1
                /\ SubSeq(items', 1, Len(items)) = items
                /\ items'[Len(items')].loc = call'.loc
                /\ items'[Len(items')].attr.type = "Deco"
                /\ items'[Len(items')].attr.deco.kind = call'.kind ]_vars

\* A push_deco that failed although the entry at the end of the log is no
\* decoration: the conflicting decoration lies deeper.
C3_Witness ==
    /\ call.op = "push_deco"
    /\ ret = "Err"
    /\ Len(items) >= 2
    /\ items[Len(items)].attr.type # "Deco"

\* C4: resolve decides every axis from the entry of that axis pushed
\* latest among the entries still in the log, and leaves the axis undecided
\* exactly when the log has no entry of that axis.
C4_LatestPushedWins ==
    call.op = "resolve" =>
        \A type \in AttrTypes :
            LET s == {i \in 1..Len(items) : items[i].attr.type = type}
            IN  IF s = {} THEN Slot(ret, type) = None
                ELSE LET w == CHOOSE i \in s :
                                \A j \in s : items[j].seq <= items[i].seq
                     IN  Slot(ret, type) = Some(DecidedBy(items[w].attr, call.text))

\* A resolve on a log with two decorations of different kinds, decided by
\* the one pushed later.
C4_Witness ==
    /\ call.op = "resolve"
    /\ \E i, j \in 1..Len(items) :
          /\ items[i].seq < items[j].seq
          /\ items[i].attr.type = "Deco"
          /\ items[j].attr.type = "Deco"
          /\ items[i].attr.deco.kind # items[j].attr.deco.kind
          /\ unwrap(ret.deco).kind = items[j].attr.deco.kind

\* C5: pop(loc) removes the last entry of location loc and no other: the
\* entries before and after it stay, in their order; with no entry of
\* location loc the log is unchanged and pop returns false.
C5_PopRemovesLastMatch ==
    [][ call'.op = "pop" =>
        LET m == Matching(items, call'.loc)
        IN  IF m = {} THEN items' = items /\ ret' = FALSE
            ELSE /\ Len(items') = Len(items) - 1
                 /\ \A j \in 1..Len(items') :
                       LET old == IF j < Largest(m) THEN j ELSE j + 1
                       IN  /\ items'[j].loc = items[old].loc
                           /\ items'[j].attr = items[old].attr
                 /\ \A j, k \in 1..Len(items') :
                       j < k => items'[j].seq < items'[k].seq ]_vars

\* A pop that removed an entry and left an earlier entry of the same
\* location in the log.
C5_Witness ==
    /\ call.op = "pop"
    /\ ret = TRUE
    /\ \E i \in 1..Len(items) : items[i].loc = call.loc

\* C6: pop returns true exactly when the entry it removed is a decoration.
C6_PopTrueIffDeco ==
    [][ call'.op = "pop" =>
        LET m == Matching(items, call'.loc)
        IN  ret' = (m # {} /\ items[Largest(m)].attr.type = "Deco") ]_vars

\* The type of the entry a call pushed or removed, "none" if it did neither.
ChangedType(c, its, r) ==
    CASE c.op = "push" -> c.attr.type
      [] c.op = "push_script" -> "Script"
      [] c.op = "push_highlight" -> "Highlight"
      [] c.op = "push_deco" -> IF r = "Ok" THEN "Deco" ELSE "none"
      [] c.op = "pop" ->
            IF Matching(its, c.loc) = {} THEN "none"
            ELSE its[Largest(Matching(its, c.loc))].attr.type
      [] OTHER -> "none"

\* C7: a push or a pop of an entry of one axis changes the resolved value
\* of no other axis, for any text run.
C7_AxesIndependent ==
    [][ items' # items =>
        LET changed == ChangedType(call', items, ret')
        IN  \A text \in Texts :
                LET before == resolve_attrs(items, text.font, text.size)
                    after == resolve_attrs(items', text.font, text.size)
                IN  \A type \in AttrTypes \ {changed} :
                        Slot(after, type) = Slot(before, type) ]_vars

\* Strong pushed after a Highlight of another location: both are set.
C7_Witness ==
    /\ call.op = "push"
    /\ call.attr = Strong
    /\ Len(items) = 2
    /\ items[1].attr.type = "Highlight"
    /\ items[1].loc # items[2].loc
    /\ \A text \in Texts :
          LET attrs == resolve_attrs(items, text.font, text.size)
          IN  is_some(attrs.background) /\ attrs.strong = Some(TRUE)

\* The tag kinds of a node, from the outermost group inwards along groups
\* that are the only child of their parent.
RECURSIVE TagPath(_)
TagPath(n) ==
    IF n.node = "Leaf" THEN <<>>
    ELSE <<n.tag.kind>> \o
         (IF Len(n.children) = 1 /\ n.children[1].node = "Group"
          THEN TagPath(n.children[1]) ELSE <<>>)

\* The children of the innermost group on that path.
RECURSIVE Innermost(_)
Innermost(n) ==
    IF Len(n.children) = 1 /\ n.children[1].node = "Group"
    THEN Innermost(n.children[1]) ELSE n.children

\* C8: resolve_nodes appends one node, the outermost group, after the
\* contents of the accumulator when an axis is set: an Em group iff emph
\* is set, around a Strong group iff strong is set, around a Span group
\* iff one of script, background, deco is set (its slot is decided),
\* around the children; no other group is built.
C8_NestingOrder ==
    [][ call'.op = "resolve_nodes" =>
        LET self == call'.self
            span == is_some(self.script) \/ is_some(self.background)
                        \/ is_some(self.deco)
            bold == is_some(self.strong)
            ital == is_some(self.emph)
            path == (IF ital THEN <<"Em">> ELSE <<>>)
                        \o (IF bold THEN <<"Strong">> ELSE <<>>)
                        \o (IF span THEN <<"Span">> ELSE <<>>)
        IN  (span \/ bold \/ ital) =>
                /\ Len(accum') = Len(accum) + 1
                /\ SubSeq(accum', 1, Len(accum)) = accum
                /\ accum'[Len(accum')].node = "Group"
                /\ TagPath(accum'[Len(accum')]) = path
                /\ Innermost(accum'[Len(accum')])
                      = [j \in 1..Len(call'.children) |->
                            [node |-> "Leaf", id |-> call'.children[j]]]
      ]_vars

\* Strong, emph and an underline built after an existing node.
C8_Witness ==
    /\ call.op = "resolve_nodes"
    /\ call.self.strong = Some(TRUE)
    /\ call.self.emph = Some(TRUE)
    /\ is_some(call.self.deco)
    /\ unwrap(call.self.deco).kind = "Underline"
    /\ Len(accum) = 2
    /\ TagPath(accum[2]) = <<"Em", "Strong", "Span">>

\* C9: with an empty log resolve returns the all-absent style, and
\* resolve_nodes then appends the children as leaves, in their order,
\* without a group.
C9_EmptyPassthrough ==
    [][ /\ (call'.op = "resolve" /\ items' = <<>>) => ret' = EMPTY
        /\ (call'.op = "resolve_nodes" /\ items = <<>>) =>
              accum' = accum \o
                  [j \in 1..Len(call'.children) |->
                      [node |-> "Leaf", id |-> call'.children[j]]] ]_vars

\* The children X, Y built into an empty accumulator from an empty log.
C9_Witness ==
    /\ call.op = "resolve_nodes"
    /\ items = <<>>
    /\ call.self = EMPTY
    /\ call.children = <<"X", "Y">>
    /\ accum = << [node |-> "Leaf", id |-> "X"], [node |-> "Leaf", id |-> "Y"] >>

\* C10: resolve_nodes builds the same nodes for a style whose background
\* was decided to an absent colour as for the same style with the
\* background never decided.
C10_AbsentAsUndecided ==
    [][ (call'.op = "resolve_nodes" /\ call'.self.background = Some(None)) =>
            accum' = resolve_nodes([call'.self EXCEPT !.background = None],
                                   accum, call'.children) ]_vars

\* The calls that push, and the calls that clear the memo.
PushOps == {"push", "push_script", "push_highlight", "push_deco"}
ClearsMemo(c, r) == (c.op \in PushOps /\ r # "Err") \/ c.op = "pop"

\* C11: the memo is empty after every successful push and after every pop,
\* also a pop that matched nothing; after a resolve it holds the one pair
\* of that call's parameters and result, so a resolve whose parameters
\* differ from those of the resolve right before it runs resolve_attrs
\* again and replaces the pair.
C11_MemoCell ==
    [][ /\ ClearsMemo(call', ret') => last_resolved' = None
        /\ call'.op = "resolve" =>
              /\ last_resolved' =
                    Some([params |-> TextParams(call'.text), attrs |-> ret'])
              /\ Cardinality(last_resolved') = 1
        /\ ( /\ call.op = "resolve"
             /\ call'.op = "resolve"
             /\ TextParams(call'.text) # TextParams(call.text) )
           => runs' = 1 - runs ]_vars

\* The memo after the second of two recomputing resolves on an unchanged,
\* non-empty log: it holds the pair of the second call only.
C11_Witness ==
    /\ call.op = "resolve"
    /\ runs = 0
    /\ ret # EMPTY
    /\ last_resolved = Some([params |-> TextParams(call.text), attrs |-> ret])

\* The entry that decides the slot of a type: the one pushed last among
\* the entries of the type; 0 if the log has none.
Winner(its, type) ==
    LET m == {i \in 1..Len(its) : its[i].attr.type = type}
    IN  IF m = {} THEN 0 ELSE Largest(m)

\* A Length [abs, em] in points at a font size, written out.
PointsAt(len, size) == len.abs + len.em * size

\* C12: the font-relative lengths of the deciding Script and Deco entries
\* are converted with the size of the run handed to this resolve call,
\* whatever sizes earlier resolve calls on the same log were given: the
\* explicit baseline shift, the explicit line height and the stroke
\* thickness are abs + em * size for the size of this call, also when the
\* memo holds the value of a call of another size.
C12_ScaledByOwnSize ==
    call.op = "resolve" =>
        LET size == call.text.size
            s == Winner(items, "Script")
            d == Winner(items, "Deco")
        IN  /\ s # 0 =>
                LET val == items[s].attr.val
                    got == unwrap(ret.script)
                IN  /\ val.baseline_shift # Auto =>
                          got.baseline_shift =
                            0 - PointsAt(unwrap(val.baseline_shift), size)
                    /\ val.lineheight # Auto =>
                          got.lineheight.Custom =
                            PointsAt(unwrap(val.lineheight), size)
            /\ d # 0 =>
                LET thickness == items[d].attr.deco.stroke.thickness
                IN  unwrap(ret.deco).thickness =
                        IF thickness = None THEN None
                        ELSE Some(PointsAt(unwrap(thickness), size))

\* The state after the log was resolved for a run of another size and then
\* for one of size 20: the thickness of 3pt + 2em is 43pt and the explicit
\* baseline shift of 1pt + 2em is -41pt.
C12_Witness ==
    /\ call.op = "resolve"
    /\ call.text.size = 20
    /\ runs = 0
    /\ is_some(ret.deco)
    /\ unwrap(ret.deco).thickness = Some(43)
    /\ is_some(ret.script)
    /\ unwrap(ret.script).baseline_shift = -41

\* C13: the script slot is decided by the Script entry pushed last.  Its
\* baseline shift is the negated explicit baseline shift at the size of the
\* run if one was given, else the vertical offset of the font's metrics for
\* the script kind at the size of the run, not negated; its line height is
\* the explicit line height if one was given, else the height of the font's
\* metrics, both at the size of the run.
C13_ScriptOverrideOrMetrics ==
    call.op = "resolve" =>
        LET s == Winner(items, "Script")
            font == call.text.font
            size == call.text.size
        IN  IF s = 0 THEN ret.script = None
            ELSE LET val == items[s].attr.val
                     metrics == read_metrics(val.kind, font)
                     got == unwrap(ret.script)
                 IN  /\ is_some(ret.script)
                     /\ got.baseline_shift =
                          IF val.baseline_shift # Auto
                          THEN 0 - PointsAt(unwrap(val.baseline_shift), size)
                          ELSE metrics.vertical_offset * size
                     /\ got.lineheight =
                          [Custom |->
                            IF val.lineheight # Auto
                            THEN PointsAt(unwrap(val.lineheight), size)
                            ELSE metrics.height * size]

\* A run of font F2 at size 10 under a superscript with an explicit
\* baseline shift and an automatic line height, pushed over a subscript
\* with neither: the shift is -(1 + 2 * 10), the height 7 * 10.
C13_Witness ==
    /\ call.op = "resolve"
    /\ call.text = [font |-> "F2", size |-> 10]
    /\ Len(items) = 2
    /\ items[1].attr.type = "Script"
    /\ items[1].attr.val.kind = "Sub"
    /\ items[1].attr.val.baseline_shift = Auto
    /\ items[2].attr.type = "Script"
    /\ items[2].attr.val.kind = "Super"
    /\ items[2].attr.val.baseline_shift # Auto
    /\ items[2].attr.val.lineheight = Auto
    /\ ret.script = Some([baseline_shift |-> -21, lineheight |-> [Custom |-> 70]])

\* The scan of the whole log from the entry pushed last to the entry
\* pushed first, every entry read, none skipped.
RECURSIVE ScanAll(_, _, _, _, _)
ScanAll(its, i, attrs, font, size) ==
    IF i = 0 THEN attrs
    ELSE ScanAll(its, i - 1, ResolveStep(attrs, its[i].attr, font, size),
                 font, size)

\* The number of entries the scan of resolve_attrs reads before it ends.
RECURSIVE EntriesRead(_, _, _, _, _)
EntriesRead(its, i, attrs, font, size) ==
    IF i = 0 THEN 0
    ELSE LET next == ResolveStep(attrs, its[i].attr, font, size)
         IN  IF all_resolved(next) THEN 1
             ELSE 1 + EntriesRead(its, i - 1, next, font, size)

\* C14: ending the scan as soon as all five slots are decided changes
\* nothing in the result: for every log and every run, resolve_attrs
\* returns what the scan of the whole log in reverse order of insertion
\* without an early end returns.
C14_EarlyExitSameAsFullScan ==
    call.op = "resolve_attrs" =>
        ret = ScanAll(items, Len(items), EMPTY, call.text.font, call.text.size)

\* A log of which resolve_attrs left an entry unread: all five slots were
\* decided by the entries pushed after it.
C14_Witness ==
    /\ call.op = "resolve_attrs"
    /\ all_resolved(ret)
    /\ EntriesRead(items, Len(items), EMPTY, call.text.font, call.text.size)
         < Len(items)
    /\ items[1].attr.type = "Highlight"
    /\ ret.background # Some(items[1].attr.color)

\* The last call was a push_deco that failed.
PushDecoFailed(c, r) == c.op = "push_deco" /\ r = "Err"

\* C15: a push_deco that fails changes neither the log (its entries, their
\* number and their order) nor the memo; a resolve right after it returns
\* what resolve_attrs yields for that same log, and if the memo held the
\* pair of the run's parameters before the failed call, it returns the
\* memoized value without computing again.
C15_FailedPushDecoChangesNothing ==
    [][ /\ PushDecoFailed(call', ret') =>
              /\ items' = items
              /\ last_resolved' = last_resolved
              /\ runs' = runs
        /\ (PushDecoFailed(call, ret) /\ call'.op = "resolve") =>
              /\ ret' = resolve_attrs(items, call'.text.font, call'.text.size)
              /\ ( /\ is_some(last_resolved)
                   /\ unwrap(last_resolved).params = TextParams(call'.text) )
                 => /\ ret' = unwrap(last_resolved).attrs
                    /\ last_resolved' = last_resolved
                    /\ runs' = runs ]_vars

\* A failed push_deco on a log with a decoration of another kind, the memo
\* holding the pair of a resolve made before it.
C15_Witness ==
    /\ PushDecoFailed(call, ret)
    /\ is_some(last_resolved)
    /\ is_some(unwrap(last_resolved).attrs.deco)
    /\ unwrap(unwrap(last_resolved).attrs.deco).kind # call.kind
    /\ Len(items) >= 2

\* The decorations in a log, by index.
DecoEntries(its) == {i \in 1..Len(its) : is_some(as_deco(its[i].attr))}

\* C16: with PDF/UA enforced at every push_deco, and push_deco the only
\* way a decoration gets into the log, all decorations in the log are of
\* one kind, whatever the order of the pushes and pops.
C16_OneDecoKind ==
    \A i, j \in DecoEntries(items) :
        items[i].attr.deco.kind = items[j].attr.deco.kind

\* A pop that took an entry out from below two decorations of one kind,
\* pushed at two locations.
C16_Witness ==
    /\ call.op = "pop"
    /\ ret = TRUE
    /\ Len(items) = 2
    /\ DecoEntries(items) = {1, 2}
    /\ items[1].loc # items[2].loc
    /\ call.loc = items[2].loc

\* C17: in a walk that pops a location once for each entry it pushed
\* there, in any order and also with several entries at one location,
\* every pop removes exactly one entry and returns true; once the pop of
\* the last open scope is done the log is empty, and a resolve made while
\* no scope is open returns the style with all five slots absent.
C17_PairedWalkEndsEmpty ==
    [][ /\ call'.op = "pop" =>
              /\ ret' = TRUE
              /\ Len(items') = Len(items) - 1
        /\ open_scopes' = NoScopes => items' = <<>>
        /\ (call'.op = "resolve" /\ open_scopes' = NoScopes) => ret' = EMPTY
      ]_vars

\* The state after the pop of the last open scope.
C17_Witness ==
    /\ call.op = "pop"
    /\ ret = TRUE
    /\ items = <<>>
    /\ open_scopes = NoScopes
    /\ last_resolved = None

=============================================================================
